---- MODULE Spec2Model ----
(***************************************************************************)
(* Model of the frame orchestration core of WaterDropEngine:               *)
(*   WdeRenderPipelineInstance (tick, setStructure, onWindowResized and    *)
(*   the begin/end render pass / subpass state machine), together with    *)
(*   the per-slot command buffers, the swapchain fences and the device    *)
(*   queue it drives.                                                      *)
(***************************************************************************)
EXTENDS Integers, Sequences, FiniteSets, Bags, TLC

\* ------------------------------------------------------------------------
\* Bounds of the model
\* ------------------------------------------------------------------------
\* Number of images the presentation surface exposes.
ImageCount == 2
\* Number of ticks that may complete in one behaviour of the default ring.
MaxTicks == 4
\* Largest pass / subpass index an application passes to a begin call.
MaxIndex == 2
\* Largest number of runtime passes the pass list may hold.
MaxPassList == 2
\* Number of command buffers used outside the frame loop.
MaxRecorders == 2
\* Number of game objects.
ObjectCount == 3
\* Number of resource paths.
PathCount == 2
\* Largest reference count a load is made at.
MaxRefs == 2
\* Largest number of releases made on a resource nobody holds.
MaxOverRelease == 1
\* Line 67: the ticks a released resource is kept for.
DeleteDelay == 3
\* Number of observer objects.
ObserverCount == 2
\* Largest length of the observer list.
MaxObservers == 3
\* Number of threads that ask the render core for a command pool.
MaxThreads == 2
\* Largest number of getCommandPool calls.
MaxPoolCalls == 3

\* ------------------------------------------------------------------------
\* Program constants
\* ------------------------------------------------------------------------
\* int _currentFramesInFlightCount = 3
DefaultFramesInFlight == 3
\* Half of the width of the unsigned image index: 2^16, 2^32 = 2^16 * 2^16
UInt16 == 65536
\* The "no pass / no subpass" value of _currentRenderPassID / SubPassID
NoID == -1

VARIABLES
    framesInFlight,         \* CoreInstance::_currentFramesInFlightCount
    currentFrame,           \* CoreInstance::_currentFrame
    activeImageIndex,       \* Swapchain active image index
    running,                \* running[f]: CommandBuffer::_running of slot f
    fences,                 \* fences[i]: TRUE iff in-flight fence i is signaled
    gpuQueue,               \* bag of the submissions the device has not
                            \* finished yet
    pc,                     \* position of the frame loop inside tick()
    commandBuffer,          \* slot of the recorder the running tick holds
    attachments,            \* number of entries of _attachments
    structure,              \* _structure
    passes,                 \* _passes: the runtime render passes
    structureError,         \* outcome of the last setStructure call
    currentRenderPassID,    \* _currentRenderPassID
    currentRenderSubPassID, \* _currentRenderSubPassID
    lastCall,               \* the last begin/end call, the ids before it and
                            \* its outcome, until the pipeline's next step
    ticksDone,              \* number of ticks that ran to their last line
    tickLog,                \* the running (or last) tick: the frame index it
                            \* started with, the lines it has executed, how
                            \* it failed, the commands of its render callback
    setupCall,              \* the last setStructure run: what it was given,
                            \* what it found and what its exception names,
                            \* until the pipeline's next step
    recorders,              \* state of each one-shot CommandBuffer
    recorderCall,           \* the last call on a one-shot CommandBuffer, the
                            \* state it found and its outcome
    commandPools,           \* CoreInstance::_commandPools: the pool stored
                            \* for each thread identity, NoID for none
    poolThreads,            \* each thread's position in getCommandPool
    poolsCreated,           \* every CommandPool constructed so far
    poolsReturned,          \* every (identity, pool) a call has returned
    poolCalls,              \* getCommandPool calls made so far
    poolCrashed,            \* the process died in a raced map access
    observers,              \* Subject::_observers
    delivered,              \* the observers whose onNotify the last notify
                            \* called, in the order of the calls
    unregistered,           \* observers removed or cleared and not added since
    subjectCall,            \* the last call on the subject and the list it
                            \* found
    resources,              \* WdeResourceManager::_resources: for each path,
                            \* whether a resource is stored and its
                            \* reference count
    resourcesToDelete,      \* _resourcesToDelete: the ticks left for each
                            \* path, NoID for a path that is not in the map
    loadsOnly,              \* for each path, the loads of its resource while
                            \* no release has been made on it, else NoID
    resourceCall,           \* the last call on the resource manager and
                            \* what it found
    parent,                 \* TransformModule::_parent of each game object,
                            \* NoID for nullptr
    childrenIDs,            \* TransformModule::_childrenIDs of each object
    walk                    \* the walk along the parents that is running:
                            \* the call that started it, the object the
                            \* gizmo loop is at, the object the running
                            \* getTransform is at

vars == << framesInFlight, currentFrame, activeImageIndex, running, fences,
           gpuQueue, pc, commandBuffer, attachments, structure, passes,
           structureError, currentRenderPassID, currentRenderSubPassID,
           lastCall, ticksDone, tickLog, setupCall,
           recorders, recorderCall, commandPools, poolThreads,
           poolsCreated, poolsReturned, poolCalls, poolCrashed,
           observers, delivered, unregistered, subjectCall,
           resources, resourcesToDelete, loadsOnly, resourceCall,
           parent, childrenIDs, walk >>

\* The state of the render pipeline and of its frame loop.
renderVars == << framesInFlight, currentFrame, activeImageIndex, running,
                 fences, gpuQueue, pc, commandBuffer, attachments, structure,
                 passes, structureError, currentRenderPassID,
                 currentRenderSubPassID, lastCall, ticksDone, tickLog,
                 setupCall >>

\* The state of the command buffers used outside the frame loop.
recorderVars == << recorders, recorderCall >>

\* The command pools of the render core and the calls that look them up.
poolVars == << commandPools, poolThreads, poolsCreated, poolsReturned,
               poolCalls, poolCrashed >>

\* The observer list of a subject and the calls made on it.
subjectVars == << observers, delivered, unregistered, subjectCall >>

\* The maps of the resource manager and the calls made on it.
resourceVars == << resources, resourcesToDelete, loadsOnly, resourceCall >>

\* The parent relation of the game objects and the walk along it.
sceneVars == << parent, childrenIDs, walk >>

\* The state outside the render pipeline.
libraryVars == << recorderVars, poolVars, subjectVars, resourceVars,
                  sceneVars >>

\* What a call on a command buffer leaves alone.
exceptRecorderVars == << renderVars, poolVars, subjectVars, resourceVars,
                         sceneVars >>

\* What a call of getCommandPool leaves alone.
exceptPoolVars == << renderVars, recorderVars, subjectVars, resourceVars,
                     sceneVars >>

\* What a call on a subject leaves alone.
exceptSubjectVars == << renderVars, recorderVars, poolVars, resourceVars,
                        sceneVars >>

\* What a call on the resource manager leaves alone.
exceptResourceVars == << renderVars, recorderVars, poolVars, subjectVars,
                         sceneVars >>

\* What a call on a transform module leaves alone.
exceptSceneVars == << renderVars, recorderVars, poolVars, subjectVars,
                      resourceVars >>

tickVars == << currentFrame, activeImageIndex, running, fences, gpuQueue,
               commandBuffer, ticksDone >>

graphVars == << attachments, structure, structureError >>

\* ------------------------------------------------------------------------
\* Helpers
\* ------------------------------------------------------------------------
Max(a, b) == IF a >= b THEN a ELSE b

\* The ring lengths setFramesInFlightCount is given at configuration time.
Rings == 1..DefaultFramesInFlight

\* One fence per ring slot and per surface image.
FenceCount == Max(framesInFlight, ImageCount)

\* The in-flight fences created unsignaled.
FencesCreatedUnsignaled == [ i \in 0..(FenceCount - 1) |-> FALSE ]

\* The in-flight fences are created signaled: a wait on a fence no
\* submission was given returns at once.
FencesAsCreated == [ i \in 0..(FenceCount - 1) |-> TRUE ]

\* A runtime RenderPass built from the sub passes of one structure entry.
\* A pass built with one subpass whatever the structure declares.
NewRenderPassOneSubpass(subPasses) ==
    [ subPassesCount |-> 1, started |-> FALSE, subPass |-> NoID ]

NewRenderPass(subPasses) ==
    [ subPassesCount |-> Len(subPasses), started |-> FALSE, subPass |-> NoID ]

\* The structures an application declares: pass ids with their subpass ids.
Structures ==
    { << [passID |-> 0, subPasses |-> <<0, 1>>] >>,
      << [passID |-> 0, subPasses |-> <<0>>], [passID |-> 1, subPasses |-> <<0, 1>>] >>,
      << [passID |-> 0, subPasses |-> <<1>>], [passID |-> 2, subPasses |-> <<0>>] >>,
      << [passID |-> 0, subPasses |-> <<0>>], [passID |-> 2, subPasses |-> <<0>>] >>,
      << [passID |-> 0, subPasses |-> <<0, 2>>] >>,
      << [passID |-> 0, subPasses |-> <<0>>], [passID |-> 1, subPasses |-> <<1>>] >>,
      << [passID |-> 1, subPasses |-> <<1>>] >> }

\* The subpass loop with iterator2 starting at 1.
RECURSIVE FirstSubGapOneBased(_, _)
FirstSubGapOneBased(subPasses, j) ==
    IF j > Len(subPasses) THEN 0
    ELSE IF subPasses[j] # j THEN j
    ELSE FirstSubGapOneBased(subPasses, j + 1)

\* Position of the first subpass whose id differs from its position, 0 if none.
RECURSIVE FirstSubGap(_, _)
FirstSubGap(subPasses, j) ==
    IF j > Len(subPasses) THEN 0
    ELSE IF subPasses[j] # j - 1 THEN j
    ELSE FirstSubGap(subPasses, j + 1)

\* The loop of setStructure from entry i on: pushes a pass per valid entry
\* and stops at the first entry that throws.
RECURSIVE CreatePasses(_, _, _)
CreatePasses(str, i, acc) ==
    IF i > Len(str) THEN [ passes |-> acc, error |-> "None" ]
    ELSE IF str[i].passID # i - 1 THEN [ passes |-> acc, error |-> "MissingPass" ]
    ELSE IF FirstSubGap(str[i].subPasses, 1) # 0
         THEN [ passes |-> acc, error |-> "MissingSubPass" ]
    ELSE CreatePasses(str, i + 1, Append(acc, NewRenderPass(str[i].subPasses)))

\* setStructure without the check of the attachment set.
SetStructureNoAttachmentCheck(old, nbAttachments, str) == CreatePasses(str, 1, old)

\* setStructure(structure) on a pass list old with nbAttachments attachments.
SetStructureResult(old, nbAttachments, str) ==
    IF nbAttachments = 0 THEN [ passes |-> old, error |-> "MissingAttachments" ]
    ELSE CreatePasses(str, 1, old)

\* The ids the exception of the setStructure loop names, from entry i on:
\* "Missing render pass with ID = iterator" and "Missing render subpass
\* with ID = iterator2 in render pass with ID = iterator".
\* The messages built from the ids the entries declare, not the iterators.
RECURSIVE NamedDeclaredIDs(_, _)
NamedDeclaredIDs(str, i) ==
    IF i > Len(str) THEN [ pass |-> NoID, subPass |-> NoID ]
    ELSE IF str[i].passID # i - 1 THEN [ pass |-> str[i].passID, subPass |-> NoID ]
    ELSE IF FirstSubGap(str[i].subPasses, 1) # 0
         THEN [ pass |-> str[i].passID,
                subPass |-> str[i].subPasses[FirstSubGap(str[i].subPasses, 1)] ]
    ELSE NamedDeclaredIDs(str, i + 1)

RECURSIVE NamedIDs(_, _)
NamedIDs(str, i) ==
    IF i > Len(str) THEN [ pass |-> NoID, subPass |-> NoID ]
    ELSE IF str[i].passID # i - 1 THEN [ pass |-> i - 1, subPass |-> NoID ]
    ELSE IF FirstSubGap(str[i].subPasses, 1) # 0
         THEN [ pass |-> i - 1,
                subPass |-> FirstSubGap(str[i].subPasses, 1) - 1 ]
    ELSE NamedIDs(str, i + 1)

\* The ids the exception of setStructure names, none for the exception on
\* the empty attachment set.
SetStructureNamedIDs(nbAttachments, str) ==
    IF nbAttachments = 0 THEN [ pass |-> NoID, subPass |-> NoID ]
    ELSE NamedIDs(str, 1)

\* 2^32 % r
Pow32Mod(r) == ((UInt16 % r) * (UInt16 % r)) % r

\* (image - 1) % r where image - 1 is computed on 32 unsigned bits:
\* 0 - 1 wraps to 2^32 - 1.
UnsignedPrevMod(image, r) ==
    IF image >= 1 THEN (image - 1) % r
    ELSE (Pow32Mod(r) + r - 1) % r

\* (getActiveImageIndex() - 1) % getMaxFramesInFlight()
WaitFenceIndex == UnsignedPrevMod(activeImageIndex, framesInFlight)

\* No pass object: the object _passes[_currentRenderPassID] a command finds.
NoTarget == [ started |-> FALSE, subPass |-> NoID ]

NoCall == [ op |-> "none", index |-> NoID, error |-> "None",
            prePass |-> NoID, preSubPass |-> NoID, target |-> NoTarget ]

Call(op, index, error) ==
    [ op |-> op, index |-> index, error |-> error,
      prePass |-> currentRenderPassID, preSubPass |-> currentRenderSubPassID,
      target |-> IF currentRenderPassID >= 0 /\ currentRenderPassID < Len(passes)
                 THEN [ started |-> passes[currentRenderPassID + 1].started,
                        subPass |-> passes[currentRenderPassID + 1].subPass ]
                 ELSE NoTarget ]

\* No submission: the fence and the two semaphores submit() is given.
NoHandles == [ fence |-> NoID, wait |-> NoID, signal |-> NoID ]

\* No tick has run yet.
NoTick == [ frame |-> 0, trace |-> << >>, error |-> "None",
            walkPass |-> NoID, walkStep |-> 0,
            image |-> 0, recorder |-> "none", submitted |-> NoHandles ]

\* No setStructure has run since the pipeline's last step.
NoSetup == [ op |-> "none", attachments |-> 0, first |-> FALSE,
             before |-> << >>, named |-> [ pass |-> NoID, subPass |-> NoID ] ]

\* A run of setStructure, called by op with the structure str.
Setup(op, str, old) ==
    [ op |-> op, attachments |-> attachments, first |-> (structure = << >>),
      before |-> old, named |-> SetStructureNamedIDs(attachments, str) ]

\* No call on a one-shot command buffer yet.
NoRecorderCall == [ op |-> "none", recorder |-> NoID, error |-> "None",
                    pre |-> "Idle" ]

\* ------------------------------------------------------------------------
\* Initial states
\* ------------------------------------------------------------------------
\* CommandBuffer(false): a command buffer is constructed not recording.
InitRecorders ==
    /\ recorders = [ r \in 0..(MaxRecorders - 1) |-> "Idle" ]
    /\ recorderCall = NoRecorderCall

\* Threads, which are also the identities a pool is asked for.
Threads == 0..(MaxThreads - 1)

\* A thread outside getCommandPool.
PoolIdle == [ pc |-> "idle", id |-> NoID, raced |-> FALSE, pool |-> NoID ]

\* _commandPools is constructed empty.
InitPools ==
    /\ commandPools = [ id \in Threads |-> NoID ]
    /\ poolThreads = [ t \in Threads |-> PoolIdle ]
    /\ poolsCreated = {}
    /\ poolsReturned = {}
    /\ poolCalls = 0
    /\ poolCrashed = FALSE

\* The null std::shared_ptr<Observer>.
NullObserver == 0

\* What addObserver and removeObserver may be given.
ObserverHandles == { NullObserver } \cup 1..ObserverCount

NoSubjectCall == [ op |-> "none", observer |-> NullObserver,
                   pushTop |-> FALSE, before |-> << >> ]

\* _observers {} is constructed empty.
InitSubject ==
    /\ observers = << >>
    /\ delivered = << >>
    /\ unregistered = {}
    /\ subjectCall = NoSubjectCall

Paths == 1..PathCount

\* A path _resources has no entry for.
NoResource == [ loaded |-> FALSE, refs |-> 0 ]

NoResourceCall == [ op |-> "none", path |-> NoID, before |-> NoResource,
                    scheduled |-> NoID ]

\* _resources {} and _resourcesToDelete {} are constructed empty.
InitResources ==
    /\ resources = [ path \in Paths |-> NoResource ]
    /\ resourcesToDelete = [ path \in Paths |-> NoID ]
    /\ loadsOnly = [ path \in Paths |-> NoID ]
    /\ resourceCall = NoResourceCall

GameObjects == 0..(ObjectCount - 1)

\* No getTransform and no gizmo loop is running.
NoWalk == [ op |-> "none", current |-> NoID, call |-> NoID ]

\* A transform module is constructed with no parent and no child.
InitScene ==
    /\ parent = [ go \in GameObjects |-> NoID ]
    /\ childrenIDs = [ go \in GameObjects |-> << >> ]
    /\ walk = NoWalk

\* Everything outside the render pipeline, as constructed.
InitLibrary ==
    InitRecorders /\ InitPools /\ InitSubject /\ InitResources /\ InitScene

\* The render core as constructed, with a ring of the given length.
InitCore(rings) ==
    /\ framesInFlight \in rings
    /\ currentFrame = 0
    /\ activeImageIndex = 0
    /\ running = [ f \in 0..(framesInFlight - 1) |-> FALSE ]
    /\ fences = FencesAsCreated
    /\ gpuQueue = EmptyBag
    /\ commandBuffer = NoID
    /\ ticksDone = 0
    /\ tickLog = NoTick
    /\ setupCall = NoSetup
    /\ InitLibrary

\* The pipeline as constructed, before setup(): no attachment, no pass.
InitGraph ==
    /\ InitCore({ 1 })
    /\ pc = "setup"
    /\ attachments = 0
    /\ structure = << >>
    /\ passes = << >>
    /\ structureError = "None"
    /\ currentRenderPassID = NoID
    /\ currentRenderSubPassID = NoID
    /\ lastCall = NoCall

\* The attachments and the structure PipelineExample02::setup() declares.
Example02Attachments == 2

Example02Structure == << [passID |-> 0, subPasses |-> <<0, 1>>] >>

\* The pipeline of example 02 once its setup() has returned, for every
\* ring length.
InitFrame ==
    /\ InitCore(Rings)
    /\ pc = "idle"
    /\ attachments = Example02Attachments
    /\ structure = Example02Structure
    /\ passes = SetStructureResult(<< >>, Example02Attachments,
                                   Example02Structure).passes
    /\ structureError = "None"
    /\ currentRenderPassID = NoID
    /\ currentRenderSubPassID = NoID
    /\ lastCall = NoCall

\* ------------------------------------------------------------------------
\* Runtime RenderPass operations on the pass list
\* ------------------------------------------------------------------------
RenderPassStart(ps, p) == [ ps EXCEPT ![p + 1].started = TRUE ]

RenderPassEnd(ps, p) == [ ps EXCEPT ![p + 1].started = FALSE ]

RenderPassStartSubPass(ps, p, k) == [ ps EXCEPT ![p + 1].subPass = k ]

RenderPassEndSubPass(ps, p, k) == [ ps EXCEPT ![p + 1].subPass = NoID ]

\* _passes[p] with p outside the list: the access has no defined outcome.
InPassList(ps, p) == p >= 0 /\ p < Len(ps)

Outcome(error, pass, sub, ps) ==
    [ error |-> error, pass |-> pass, subPass |-> sub, passes |-> ps ]

\* ------------------------------------------------------------------------
\* The begin/end render pass / subpass commands
\* ------------------------------------------------------------------------
\* beginRenderPass with the range check ahead of the active-pass check.
BeginRenderPassRangeFirst(pass, sub, ps, index) ==
    IF index >= Len(ps) THEN Outcome("OutOfRange", pass, sub, ps)
    ELSE IF pass # NoID THEN Outcome("AlreadyActive", pass, sub, ps)
    ELSE Outcome("None", index, sub, RenderPassStart(ps, index))

\* beginRenderPass with index > _passes.size() as its range check.
BeginRenderPassOffByOne(pass, sub, ps, index) ==
    IF pass # NoID THEN Outcome("AlreadyActive", pass, sub, ps)
    ELSE IF index > Len(ps) THEN Outcome("OutOfRange", pass, sub, ps)
    ELSE Outcome("None", index, sub,
                 IF index < Len(ps) THEN RenderPassStart(ps, index) ELSE ps)

BeginRenderPassResult(pass, sub, ps, index) ==
    IF pass # NoID THEN Outcome("AlreadyActive", pass, sub, ps)
    ELSE IF index >= Len(ps) THEN Outcome("OutOfRange", pass, sub, ps)
    ELSE Outcome("None", index, sub, RenderPassStart(ps, index))

\* endRenderPass without the check of the active subpass.
EndRenderPassNoCheck(pass, sub, ps) ==
    IF ~InPassList(ps, pass) THEN Outcome("OutOfBounds", NoID, sub, ps)
    ELSE Outcome("None", NoID, sub, RenderPassEnd(ps, pass))

\* endRenderPass that resets the pass id before it throws.
EndRenderPassResetsFirst(pass, sub, ps) ==
    IF sub # NoID THEN Outcome("SubpassStillActive", NoID, sub, ps)
    ELSE IF ~InPassList(ps, pass) THEN Outcome("OutOfBounds", NoID, sub, ps)
    ELSE Outcome("None", NoID, sub, RenderPassEnd(ps, pass))

EndRenderPassResult(pass, sub, ps) ==
    IF sub # NoID THEN Outcome("SubpassStillActive", pass, sub, ps)
    ELSE IF ~InPassList(ps, pass) THEN Outcome("OutOfBounds", NoID, sub, ps)
    ELSE Outcome("None", NoID, sub, RenderPassEnd(ps, pass))

\* beginRenderSubPass without the check that a pass is active.
BeginRenderSubPassNoPassCheck(pass, sub, ps, index) ==
    IF sub # NoID THEN Outcome("AlreadyActive", pass, sub, ps)
    ELSE IF ~InPassList(ps, pass) THEN Outcome("OutOfBounds", pass, index, ps)
    ELSE IF index >= ps[pass + 1].subPassesCount
         THEN Outcome("OutOfRange", pass, sub, ps)
    ELSE Outcome("None", pass, index, RenderPassStartSubPass(ps, pass, index))

\* beginRenderSubPass without the check that no subpass is active.
BeginRenderSubPassNoSubCheck(pass, sub, ps, index) ==
    IF pass = NoID THEN Outcome("NoActivePass", pass, sub, ps)
    ELSE IF ~InPassList(ps, pass) THEN Outcome("OutOfBounds", pass, index, ps)
    ELSE IF index >= ps[pass + 1].subPassesCount
         THEN Outcome("OutOfRange", pass, sub, ps)
    ELSE Outcome("None", pass, index, RenderPassStartSubPass(ps, pass, index))

\* beginRenderSubPass with index > getSubPassesCount() as its range check.
BeginRenderSubPassOffByOne(pass, sub, ps, index) ==
    IF pass = NoID THEN Outcome("NoActivePass", pass, sub, ps)
    ELSE IF sub # NoID THEN Outcome("AlreadyActive", pass, sub, ps)
    ELSE IF ~InPassList(ps, pass) THEN Outcome("OutOfBounds", pass, index, ps)
    ELSE IF index > ps[pass + 1].subPassesCount
         THEN Outcome("OutOfRange", pass, sub, ps)
    ELSE Outcome("None", pass, index, RenderPassStartSubPass(ps, pass, index))

\* beginRenderSubPass that stores the index before it checks it.
BeginRenderSubPassStoresFirst(pass, sub, ps, index) ==
    IF pass = NoID THEN Outcome("NoActivePass", pass, sub, ps)
    ELSE IF sub # NoID THEN Outcome("AlreadyActive", pass, sub, ps)
    ELSE IF ~InPassList(ps, pass) THEN Outcome("OutOfBounds", pass, index, ps)
    ELSE IF index >= ps[pass + 1].subPassesCount
         THEN Outcome("OutOfRange", pass, index, ps)
    ELSE Outcome("None", pass, index, RenderPassStartSubPass(ps, pass, index))

BeginRenderSubPassResult(pass, sub, ps, index) ==
    IF pass = NoID THEN Outcome("NoActivePass", pass, sub, ps)
    ELSE IF sub # NoID THEN Outcome("AlreadyActive", pass, sub, ps)
    ELSE IF ~InPassList(ps, pass) THEN Outcome("OutOfBounds", pass, index, ps)
    ELSE IF index >= ps[pass + 1].subPassesCount
         THEN Outcome("OutOfRange", pass, sub, ps)
    ELSE Outcome("None", pass, index, RenderPassStartSubPass(ps, pass, index))

\* endRenderSubPass without the check that a pass is active.
EndRenderSubPassNoPassCheck(pass, sub, ps) ==
    IF ~InPassList(ps, pass) THEN Outcome("OutOfBounds", pass, NoID, ps)
    ELSE Outcome("None", pass, NoID, RenderPassEndSubPass(ps, pass, sub))

EndRenderSubPassResult(pass, sub, ps) ==
    IF pass = NoID THEN Outcome("NoActivePass", pass, sub, ps)
    ELSE IF ~InPassList(ps, pass) THEN Outcome("OutOfBounds", pass, NoID, ps)
    ELSE Outcome("None", pass, NoID, RenderPassEndSubPass(ps, pass, sub))

Thrown(error) == error \notin { "None", "OutOfBounds" }

\* The walk of PipelineExample02::render over a pass p of m subpasses:
\* beginRenderPass(p), then beginRenderSubPass(k), endRenderSubPass() for
\* k = 0..m-1, then endRenderPass().  WalkExpects tells whether the command
\* is the one this walk issues after the walkStep commands issued so far.
WalkExpects(op, index) ==
    LET n == tickLog.walkStep
        p == tickLog.walkPass
    IN  IF n < 0 THEN FALSE
        ELSE IF n = 0 THEN op = "beginRenderPass" /\ index < Len(passes)
        ELSE IF ~InPassList(passes, p) THEN FALSE
        ELSE LET m == passes[p + 1].subPassesCount
             IN  IF n <= 2 * m
                 THEN IF n % 2 = 1
                      THEN op = "beginRenderSubPass" /\ index = (n - 1) \div 2
                      ELSE op = "endRenderSubPass"
                 ELSE n = 2 * m + 1 /\ op = "endRenderPass"

\* The commands of the callback so far are that whole walk.
WalkComplete ==
    /\ tickLog.walkStep >= 1
    /\ InPassList(passes, tickLog.walkPass)
    /\ tickLog.walkStep = 2 * passes[tickLog.walkPass + 1].subPassesCount + 2

Walked(op, index, error, crashed) ==
    [ tickLog EXCEPT
        !.walkStep = IF WalkExpects(op, index) THEN @ + 1 ELSE -1,
        !.walkPass = IF ~WalkExpects(op, index) THEN NoID
                     ELSE IF tickLog.walkStep = 0 THEN index ELSE @,
        !.error = IF crashed THEN "Crashed"
                  ELSE IF Thrown(error) THEN "CommandError" ELSE @ ]

\* A command issued by the render callback.  A thrown WdeException leaves
\* render() and tick().  An out-of-bounds access to the pass list either
\* ends the process or goes unnoticed.
Command(op, index, res, crash) ==
    /\ pc = "render"
    /\ lastCall' = Call(op, index, res.error)
    /\ currentRenderPassID' = res.pass
    /\ currentRenderSubPassID' = res.subPass
    /\ passes' = res.passes
    /\ pc' = IF res.error = "OutOfBounds" /\ crash THEN "crashed"
             ELSE IF Thrown(res.error) THEN "idle"
             ELSE "render"
    /\ commandBuffer' = IF pc' = "render" THEN commandBuffer ELSE NoID
    /\ tickLog' = Walked(op, index, res.error, pc' = "crashed")
    /\ UNCHANGED libraryVars
    /\ UNCHANGED << framesInFlight, currentFrame, activeImageIndex, running,
                    fences, gpuQueue, ticksDone, graphVars, setupCall >>

beginRenderPass(index, crash) ==
    Command("beginRenderPass", index,
            BeginRenderPassResult(currentRenderPassID, currentRenderSubPassID,
                                  passes, index), crash)

endRenderPass(crash) ==
    Command("endRenderPass", NoID,
            EndRenderPassResult(currentRenderPassID, currentRenderSubPassID,
                                passes), crash)

beginRenderSubPass(index, crash) ==
    Command("beginRenderSubPass", index,
            BeginRenderSubPassResult(currentRenderPassID, currentRenderSubPassID,
                                     passes, index), crash)

endRenderSubPass(crash) ==
    Command("endRenderSubPass", NoID,
            EndRenderSubPassResult(currentRenderPassID, currentRenderSubPassID,
                                   passes), crash)

\* ------------------------------------------------------------------------
\* tick()
\* ------------------------------------------------------------------------
\* Ticks that may complete on the current ring: a ring shorter than the
\* default one is taken round as often as the default ring in MaxTicks ticks.
TickBudget == framesInFlight + (MaxTicks - DefaultFramesInFlight)

\* The lines of tick() each step of the model executes, in their order.
AcquireSteps == << "acquire", "recorder" >>

RenderSteps == << "render" >>

WaitSteps == << "wait" >>

\* The submit block with submit() ahead of end().
SubmitStepsSwapped == << "submit", "end" >>

SubmitSteps == << "end", "submit" >>

PresentSteps(success) ==
    IF success THEN << "present", "advance" >> ELSE << "present" >>

Logged(steps) == [ tickLog EXCEPT !.trace = @ \o steps ]

\* Lines 26-28 with begin() called whatever isRunning() returns.
RecorderStepAlwaysBegins(isRunning) ==
    IF isRunning THEN "rebegun" ELSE "begun"

\* Lines 26-28: begin() is called on a recorder that is not running
\* ("begun"); a running recorder is used as it is ("continued").
RecorderStep(isRunning) ==
    IF isRunning THEN "continued" ELSE "begun"

\* Lines 51-54 with the semaphores of the frame slot.
SubmitHandlesOfSlot(frame, image) ==
    [ fence |-> image, wait |-> frame, signal |-> frame ]

\* Lines 51-54: the indices of the fence, of the image-available semaphore
\* and of the render-finished semaphore submit() is given.
SubmitHandles(frame, image) ==
    [ fence |-> image, wait |-> image, signal |-> image ]

\* Lines 17-28: acquire the next image, take the recorder of the current
\* frame and begin it unless it is already running.
TickAcquire ==
    /\ pc = "idle"
    /\ ticksDone < TickBudget
    /\ \E image \in 0..(ImageCount - 1) : activeImageIndex' = image
    /\ commandBuffer' = currentFrame
    /\ running' = [ running EXCEPT
                      ![currentFrame] =
                          @ \/ RecorderStep(@) \in { "begun", "rebegun" } ]
    /\ pc' = "render"
    /\ lastCall' = NoCall
    /\ tickLog' = [ frame |-> currentFrame, trace |-> AcquireSteps,
                    error |-> "None",
                    walkPass |-> NoID, walkStep |-> 0,
                    image |-> activeImageIndex',
                    recorder |-> RecorderStep(running[currentFrame]),
                    submitted |-> NoHandles ]
    /\ setupCall' = NoSetup
    /\ UNCHANGED libraryVars
    /\ UNCHANGED << framesInFlight, currentFrame, fences, gpuQueue, ticksDone,
                    graphVars, passes, currentRenderPassID,
                    currentRenderSubPassID >>

\* Line 36: render() returns.
RenderReturn ==
    /\ pc = "render"
    /\ pc' = "wait"
    /\ lastCall' = NoCall
    /\ tickLog' = Logged(RenderSteps)
    /\ UNCHANGED libraryVars
    /\ UNCHANGED << framesInFlight, tickVars, graphVars, passes,
                    currentRenderPassID, currentRenderSubPassID, setupCall >>

\* Line 43: vkWaitForFences returns once the fence is signaled.
TickWaitFence ==
    /\ pc = "wait"
    /\ fences[WaitFenceIndex]
    /\ pc' = "submit"
    /\ tickLog' = Logged(WaitSteps)
    /\ UNCHANGED libraryVars
    /\ UNCHANGED << framesInFlight, tickVars, graphVars, passes,
                    currentRenderPassID, currentRenderSubPassID, lastCall,
                    setupCall >>

\* Lines 50-54: end the recorder and submit it with the fence of the image.
TickSubmit ==
    /\ pc = "submit"
    /\ running' = [ running EXCEPT ![commandBuffer] = FALSE ]
    /\ LET handles == SubmitHandles(currentFrame, activeImageIndex)
       IN  /\ fences' = [ fences EXCEPT ![handles.fence] = FALSE ]
           /\ gpuQueue' = gpuQueue (+) SetToBag({ [ slot |-> commandBuffer,
                                                    fence |-> handles.fence ] })
           /\ tickLog' = [ Logged(SubmitSteps) EXCEPT !.submitted = handles ]
    /\ pc' = "present"
    /\ UNCHANGED libraryVars
    /\ UNCHANGED << framesInFlight, currentFrame, activeImageIndex,
                    commandBuffer, ticksDone, graphVars, passes,
                    currentRenderPassID, currentRenderSubPassID, lastCall,
                    setupCall >>

\* The frame advance with a step of two.
NextFrameIndexSkips(frame) == (frame + 2) % framesInFlight

NextFrameIndex(frame) == (frame + 1) % framesInFlight

\* The frame index advanced whatever presentToQueue returned.
FrameAfterPresentAlways(success, frame) == NextFrameIndex(frame)

\* Lines 62-67: the throw on a failed present skips the frame advance.
FrameAfterPresent(success, frame) ==
    IF success THEN NextFrameIndex(frame) ELSE frame

\* Lines 61-67: present; a success advances the frame, a failure throws
\* the fatal presentation error, which ends the frame loop.
TickPresent(success) ==
    /\ pc = "present"
    /\ pc' = IF success THEN "idle" ELSE "aborted"
    /\ commandBuffer' = NoID
    /\ currentFrame' = FrameAfterPresent(success, currentFrame)
    /\ ticksDone' = IF success THEN ticksDone + 1 ELSE ticksDone
    /\ tickLog' = [ Logged(PresentSteps(success)) EXCEPT
                      !.error = IF success THEN @ ELSE "PresentationError" ]
    /\ UNCHANGED libraryVars
    /\ UNCHANGED << framesInFlight, activeImageIndex, running, fences,
                    gpuQueue, graphVars, passes, currentRenderPassID,
                    currentRenderSubPassID, lastCall, setupCall >>

\* The device finishes a submission and signals its fence.
GpuComplete(work) ==
    /\ BagIn(work, gpuQueue)
    /\ fences' = [ fences EXCEPT ![work.fence] = TRUE ]
    /\ gpuQueue' = gpuQueue (-) SetToBag({ work })
    /\ UNCHANGED libraryVars
    /\ UNCHANGED << framesInFlight, currentFrame, activeImageIndex, running,
                    pc, commandBuffer, ticksDone, graphVars, passes,
                    currentRenderPassID, currentRenderSubPassID, lastCall,
                    tickLog, setupCall >>

\* ------------------------------------------------------------------------
\* Graph construction and resize
\* ------------------------------------------------------------------------
AttachmentCounts == { 0, Example02Attachments }

setAttachments(n) ==
    /\ pc = "setup"
    /\ attachments' = n
    /\ setupCall' = NoSetup
    /\ UNCHANGED libraryVars
    /\ UNCHANGED << framesInFlight, tickVars, pc, structure, structureError,
                    passes, currentRenderPassID, currentRenderSubPassID,
                    lastCall, tickLog >>

setStructure(str) ==
    /\ pc = "setup"
    /\ Len(passes) + Len(str) <= MaxPassList
    /\ structure' = str
    /\ LET res == SetStructureResult(passes, attachments, str)
       IN  /\ passes' = res.passes
           /\ structureError' = res.error
    /\ setupCall' = Setup("setStructure", str, passes)
    /\ UNCHANGED libraryVars
    /\ UNCHANGED << framesInFlight, tickVars, pc, attachments,
                    currentRenderPassID, currentRenderSubPassID, lastCall,
                    tickLog >>

\* setup() has returned, its last call without an exception: the frame
\* loop starts.
start ==
    /\ pc = "setup"
    /\ structureError = "None"
    /\ pc' = "idle"
    /\ setupCall' = NoSetup
    /\ UNCHANGED libraryVars
    /\ UNCHANGED << framesInFlight, tickVars, graphVars, passes,
                    currentRenderPassID, currentRenderSubPassID, lastCall,
                    tickLog >>

onWindowResized ==
    /\ pc = "idle"
    /\ LET res == SetStructureResult(<< >>, attachments, structure)
       IN  /\ passes' = res.passes
           /\ structureError' = res.error
    /\ lastCall' = NoCall
    /\ setupCall' = Setup("onWindowResized", structure, passes)
    /\ UNCHANGED libraryVars
    /\ UNCHANGED << framesInFlight, tickVars, pc, attachments, structure,
                    currentRenderPassID, currentRenderSubPassID, tickLog >>

\* ------------------------------------------------------------------------
\* Specifications
\* ------------------------------------------------------------------------
\* The commands a render callback issues.
RenderCommands ==
    \/ \E index \in 0..MaxIndex, crash \in BOOLEAN : beginRenderPass(index, crash)
    \/ \E crash \in BOOLEAN : endRenderPass(crash)
    \/ \E index \in 0..MaxIndex, crash \in BOOLEAN : beginRenderSubPass(index, crash)
    \/ \E crash \in BOOLEAN : endRenderSubPass(crash)

\* The frame loop: ticks, the device, and resize events between ticks.
NextFrame ==
    \/ TickAcquire
    \/ RenderCommands
    \/ RenderReturn
    \/ TickWaitFence
    \/ TickSubmit
    \/ \E success \in BOOLEAN : TickPresent(success)
    \/ \E work \in BagToSet(gpuQueue) : GpuComplete(work)
    \/ onWindowResized

\* Graph construction in setup(), followed by the frame loop.
NextGraph ==
    \/ \E n \in AttachmentCounts : setAttachments(n)
    \/ \E str \in Structures : setStructure(str)
    \/ start
    \/ NextFrame

\* The frame loop of example 02 for every ring length.
SpecFrame == InitFrame /\ [][NextFrame]_vars

\* Every pipeline built from Structures, driven by a ring of one slot.
SpecGraph == InitGraph /\ [][NextGraph]_vars

\* The device finishes one of the submissions it holds.
DeviceCompletes == \E work \in BagToSet(gpuQueue) : GpuComplete(work)

\* presentToQueue returns, with success or not.
Presents == \E success \in BOOLEAN : TickPresent(success)

\* The frame loop with render callbacks that return.
NextTicks ==
    \/ TickAcquire
    \/ RenderReturn
    \/ TickWaitFence
    \/ TickSubmit
    \/ Presents
    \/ DeviceCompletes

\* The frame loop of example 02 on a device that finishes what it is
\* given and a thread that runs on when vkWaitForFences, submit and
\* presentToQueue can return.
SpecTicks ==
    /\ InitFrame
    /\ [][NextTicks]_vars
    /\ WF_vars(DeviceCompletes)
    /\ WF_vars(TickWaitFence)
    /\ WF_vars(TickSubmit)
    /\ WF_vars(Presents)

\* ------------------------------------------------------------------------
\* CommandBuffer
\* ------------------------------------------------------------------------
\* CommandBuffer::isRunning(): _running is set between begin() and end().
IsRunning(state) == state = "Recording"

RecorderOutcome(error, state) == [ error |-> error, state |-> state ]

\* begin() that starts a recording whatever the state.
RecorderBeginNoCheck(state) == RecorderOutcome("None", "Recording")

\* begin(flags): fails unless the recorder is idle.
RecorderBegin(state) ==
    IF state # "Idle" THEN RecorderOutcome("NotIdle", state)
    ELSE RecorderOutcome("None", "Recording")

\* end(): fails unless the recorder is recording.
RecorderEnd(state) ==
    IF ~IsRunning(state) THEN RecorderOutcome("NotRecording", state)
    ELSE RecorderOutcome("None", "Ended")

\* submit(fence, wait, signal): valid only after end(); returns at once.
RecorderSubmit(state) ==
    IF state # "Ended" THEN RecorderOutcome("NotEnded", state)
    ELSE RecorderOutcome("None", "Submitted")

\* submitIdle(): end(), submit, then wait until the queue has drained.
RecorderSubmitIdle(state) ==
    IF RecorderEnd(state).error # "None" THEN RecorderEnd(state)
    ELSE RecorderOutcome("None", "Idle")

RecorderCalled(op, r, res) ==
    /\ recorders' = [ recorders EXCEPT ![r] = res.state ]
    /\ recorderCall' = [ op |-> op, recorder |-> r, error |-> res.error,
                         pre |-> recorders[r] ]
    /\ UNCHANGED exceptRecorderVars

RecorderBeginCall(r) == RecorderCalled("begin", r, RecorderBegin(recorders[r]))

RecorderEndCall(r) == RecorderCalled("end", r, RecorderEnd(recorders[r]))

RecorderSubmitCall(r) ==
    RecorderCalled("submit", r, RecorderSubmit(recorders[r]))

RecorderSubmitIdleCall(r) ==
    RecorderCalled("submitIdle", r, RecorderSubmitIdle(recorders[r]))

\* The device finishes the submission of a recorder.
RecorderComplete(r) ==
    /\ recorders[r] = "Submitted"
    /\ recorders' = [ recorders EXCEPT ![r] = "Idle" ]
    /\ recorderCall' = NoRecorderCall
    /\ UNCHANGED exceptRecorderVars

NextRecorder ==
    \E r \in 0..(MaxRecorders - 1) :
        \/ RecorderBeginCall(r)
        \/ RecorderEndCall(r)
        \/ RecorderSubmitCall(r)
        \/ RecorderSubmitIdleCall(r)
        \/ RecorderComplete(r)

\* ------------------------------------------------------------------------
\* Subject
\* ------------------------------------------------------------------------
\* addObserver that pushes back whatever pushTop is.
AddObserverBack(list, observer, pushTop) == Append(list, observer)

\* Lines 24-29: insert at begin() if pushTop, push_back otherwise.
AddObserver(list, observer, pushTop) ==
    IF pushTop THEN << observer >> \o list ELSE Append(list, observer)

\* Line 36: std::remove moves the elements that differ from observer to
\* the front in their order, erase cuts the rest.
RECURSIVE RemoveObserver(_, _)
RemoveObserver(list, observer) ==
    IF list = << >> THEN << >>
    ELSE IF Head(list) = observer THEN RemoveObserver(Tail(list), observer)
    ELSE << Head(list) >> \o RemoveObserver(Tail(list), observer)

\* Lines 54-56: the loop over _observers from position i, with the
\* observers called so far.
RECURSIVE Notify(_, _, _)
Notify(list, i, called) ==
    IF i > Len(list) THEN called
    ELSE IF list[i] # NullObserver THEN Notify(list, i + 1, Append(called, list[i]))
    ELSE Notify(list, i + 1, called)

SubjectCalled(op, observer, pushTop) ==
    /\ subjectCall' = [ op |-> op, observer |-> observer, pushTop |-> pushTop,
                        before |-> observers ]
    /\ UNCHANGED exceptSubjectVars

addObserver(observer, pushTop) ==
    /\ Len(observers) < MaxObservers
    /\ observers' = AddObserver(observers, observer, pushTop)
    /\ unregistered' = unregistered \ { observer }
    /\ delivered' = << >>
    /\ SubjectCalled("addObserver", observer, pushTop)

removeObserver(observer) ==
    /\ observers' = RemoveObserver(observers, observer)
    /\ unregistered' = unregistered \cup { observer }
    /\ delivered' = << >>
    /\ SubjectCalled("removeObserver", observer, FALSE)

clearObservers ==
    /\ observers' = << >>
    /\ unregistered' = unregistered \cup { observers[i] : i \in 1..Len(observers) }
    /\ delivered' = << >>
    /\ SubjectCalled("clearObservers", NullObserver, FALSE)

notify ==
    /\ delivered' = Notify(observers, 1, << >>)
    /\ UNCHANGED << observers, unregistered >>
    /\ SubjectCalled("notify", NullObserver, FALSE)

NextSubject ==
    \/ \E observer \in ObserverHandles, pushTop \in BOOLEAN :
           addObserver(observer, pushTop)
    \/ \E observer \in ObserverHandles : removeObserver(observer)
    \/ clearObservers
    \/ notify

\* Calls in any order on one subject.
SpecSubject == InitGraph /\ [][NextSubject]_vars

\* ------------------------------------------------------------------------
\* WdeResourceManager
\* ------------------------------------------------------------------------
\* Resource::increaseReferenceCount, decreaseReferenceCount.
IncreaseReferenceCount(res) == [ res EXCEPT !.refs = @ + 1 ]

DecreaseReferenceCount(res) == [ res EXCEPT !.refs = @ - 1 ]

\* load that builds a resource whether or not the path has one.
LoadAlwaysCreates(res) ==
    IncreaseReferenceCount([ loaded |-> TRUE, refs |-> 0 ])

\* Lines 32-48: the stored resource with one reference more, or a new
\* resource with its first reference.
Load(res) ==
    IF res.loaded THEN IncreaseReferenceCount(res)
    ELSE IncreaseReferenceCount([ loaded |-> TRUE, refs |-> 0 ])

\* release that schedules the deletion again at every release.
ReleaseReschedules(res, scheduled) ==
    IF ~res.loaded THEN [ res |-> res, scheduled |-> scheduled ]
    ELSE [ res |-> DecreaseReferenceCount(res),
           scheduled |-> IF DecreaseReferenceCount(res).refs <= 0
                         THEN DeleteDelay ELSE scheduled ]

\* Lines 54-68: nothing for a path without resource; else one reference
\* less and, at a count <= 0, an entry of 3 ticks unless the path has one.
Release(res, scheduled) ==
    IF ~res.loaded THEN [ res |-> res, scheduled |-> scheduled ]
    ELSE [ res |-> DecreaseReferenceCount(res),
           scheduled |-> IF DecreaseReferenceCount(res).refs <= 0
                            /\ scheduled = NoID
                         THEN DeleteDelay ELSE scheduled ]

ResourceCalled(op, path) ==
    /\ resourceCall' = [ op |-> op, path |-> path, before |-> resources[path],
                         scheduled |-> resourcesToDelete[path] ]
    /\ UNCHANGED exceptResourceVars

load(path) ==
    /\ resources[path].refs < MaxRefs
    /\ resources' = [ resources EXCEPT ![path] = Load(@) ]
    /\ loadsOnly' = [ loadsOnly EXCEPT
                        ![path] = IF ~resources[path].loaded THEN 1
                                  ELSE IF @ = NoID THEN NoID ELSE @ + 1 ]
    /\ UNCHANGED resourcesToDelete
    /\ ResourceCalled("load", path)

release(path) ==
    /\ resources[path].refs > -MaxOverRelease
    /\ LET res == Release(resources[path], resourcesToDelete[path])
       IN  /\ resources' = [ resources EXCEPT ![path] = res.res ]
           /\ resourcesToDelete' = [ resourcesToDelete EXCEPT
                                       ![path] = res.scheduled ]
    /\ loadsOnly' = [ loadsOnly EXCEPT
                        ![path] = IF resources[path].loaded THEN NoID ELSE @ ]
    /\ ResourceCalled("release", path)

\* tick(): every entry of _resourcesToDelete loses a tick; an entry out of
\* ticks is erased, and its resource is erased with it or, if it is
\* referenced again, possibly kept.
ResourceTick ==
    /\ \E path \in Paths : resourcesToDelete[path] # NoID
    /\ \E kept \in SUBSET { path \in Paths : /\ resourcesToDelete[path] = 1
                                              /\ resources[path].refs > 0 } :
           /\ resourcesToDelete' =
                  [ path \in Paths |->
                      IF resourcesToDelete[path] > 1
                      THEN resourcesToDelete[path] - 1 ELSE NoID ]
           /\ resources' =
                  [ path \in Paths |->
                      IF resourcesToDelete[path] = 1 /\ path \notin kept
                      THEN NoResource ELSE resources[path] ]
           /\ loadsOnly' =
                  [ path \in Paths |->
                      IF resourcesToDelete[path] = 1 /\ path \notin kept
                      THEN NoID ELSE loadsOnly[path] ]
    /\ resourceCall' = NoResourceCall
    /\ UNCHANGED exceptResourceVars

NextResources ==
    \/ \E path \in Paths : load(path)
    \/ \E path \in Paths : release(path)
    \/ ResourceTick

\* Loads, releases and ticks in any order.
SpecResources == InitGraph /\ [][NextResources]_vars

\* ------------------------------------------------------------------------
\* TransformModule and the gizmo of Chunk::drawGUI
\* ------------------------------------------------------------------------
\* std::remove / erase of an id from a children list.
RECURSIVE EraseID(_, _)
EraseID(ids, id) ==
    IF ids = << >> THEN << >>
    ELSE IF Head(ids) = id THEN EraseID(Tail(ids), id)
    ELSE << Head(ids) >> \o EraseID(Tail(ids), id)

\* TransformModule.cpp lines 61-70: the id leaves the children of the old
\* parent, the parent is stored, the id joins the children of the new one.
\* No check is made on the new parent.
setParent(go, newParent) ==
    /\ walk.op = "none"
    /\ parent' = [ parent EXCEPT ![go] = newParent ]
    /\ childrenIDs' =
           LET erased == IF parent[go] = NoID THEN childrenIDs
                         ELSE [ childrenIDs EXCEPT
                                  ![parent[go]] = EraseID(@, go) ]
           IN  [ erased EXCEPT ![newParent] = Append(@, go) ]
    /\ UNCHANGED walk
    /\ UNCHANGED exceptSceneVars

\* The object a getTransform running on go calls getTransform on
\* (line 102), NoID when it returns without a call.
GetTransformCallee(go) ==
    IF parent[go] # NoID /\ parent[go] # go THEN parent[go] ELSE NoID

\* getTransform() is called on a game object.
getTransform(go) ==
    /\ walk.op = "none"
    /\ walk' = [ op |-> "getTransform", current |-> NoID, call |-> go ]
    /\ UNCHANGED << parent, childrenIDs >>
    /\ UNCHANGED exceptSceneVars

\* Lines 102-103: the running getTransform calls getTransform of the
\* parent, or it has no such call to make and every call returns.
GetTransformStep ==
    /\ walk.call # NoID
    /\ walk' = IF GetTransformCallee(walk.call) # NoID
               THEN [ walk EXCEPT !.call = GetTransformCallee(walk.call) ]
               ELSE IF walk.op = "getTransform" THEN NoWalk
               ELSE [ walk EXCEPT !.call = NoID ]
    /\ UNCHANGED << parent, childrenIDs >>
    /\ UNCHANGED exceptSceneVars

\* Chunk.cpp lines 319-332: the gizmo of the selected object is used;
\* getTransform of the object is called, then the loop starts at it.
drawGUI(go) ==
    /\ walk.op = "none"
    /\ walk' = [ op |-> "drawGUI", current |-> go, call |-> go ]
    /\ UNCHANGED << parent, childrenIDs >>
    /\ UNCHANGED exceptSceneVars

\* Chunk.cpp lines 333-338: break at an object without parent, else move
\* to the parent and call its getTransform.
GizmoLoopStep ==
    /\ walk.op = "drawGUI"
    /\ walk.call = NoID
    /\ walk' = IF parent[walk.current] = NoID THEN NoWalk
               ELSE [ walk EXCEPT !.current = parent[walk.current],
                                  !.call = parent[walk.current] ]
    /\ UNCHANGED << parent, childrenIDs >>
    /\ UNCHANGED exceptSceneVars

\* A step of the walk that is running.
WalkStep == GetTransformStep \/ GizmoLoopStep

NextScene ==
    \/ \E go, newParent \in GameObjects : setParent(go, newParent)
    \/ \E go \in GameObjects : getTransform(go)
    \/ \E go \in GameObjects : drawGUI(go)
    \/ GetTransformStep
    \/ GizmoLoopStep

\* setParent calls in any order, and walks that run on once started.
SpecScene == InitGraph /\ [][NextScene]_vars /\ WF_vars(WalkStep)

\* ------------------------------------------------------------------------
\* CoreInstance::getCommandPool
\* ------------------------------------------------------------------------
\* Threads inside a call of std::map on _commandPools, other than t.
PoolReaders(t) == { u \in Threads \ { t } : poolThreads[u].pc = "finding" }

PoolWriters(t) == { u \in Threads \ { t } : poolThreads[u].pc = "emplacing" }

\* The threads of us are in a data race on _commandPools.
PoolRaced(threads, us) ==
    [ u \in Threads |-> IF u \in us THEN [ threads[u] EXCEPT !.raced = TRUE ]
                        ELSE threads[u] ]

\* The call returns the pool to its caller.
PoolReturn(t, pool) ==
    /\ poolsReturned' = poolsReturned \cup
                            { [ id |-> poolThreads[t].id, pool |-> pool ] }
    /\ poolThreads' = [ poolThreads EXCEPT ![t] = PoolIdle ]

\* getCommandPool(threadID) is entered and _commandPools.find(threadID)
\* starts; no lock is taken, so the lookup runs while other threads insert.
GetCommandPool(t, id) ==
    /\ ~poolCrashed
    /\ poolThreads[t].pc = "idle"
    /\ poolCalls < MaxPoolCalls
    /\ poolCalls' = poolCalls + 1
    /\ poolThreads' =
           LET entered == [ poolThreads EXCEPT
                              ![t] = [ pc |-> "finding", id |-> id,
                                       raced |-> FALSE, pool |-> NoID ] ]
           IN  IF PoolWriters(t) = {} THEN entered
               ELSE PoolRaced(entered, PoolWriters(t) \cup { t })
    /\ UNCHANGED exceptPoolVars
    /\ UNCHANGED << commandPools, poolsCreated, poolsReturned, poolCrashed >>

\* find returned an entry: it->second is returned.  A lookup that raced
\* with an insertion has no defined result and may return any stored pool.
PoolFound(t) ==
    /\ ~poolCrashed
    /\ poolThreads[t].pc = "finding"
    /\ \E id \in Threads :
           /\ commandPools[id] # NoID
           /\ id = poolThreads[t].id \/ poolThreads[t].raced
           /\ PoolReturn(t, commandPools[id])
    /\ UNCHANGED exceptPoolVars
    /\ UNCHANGED << commandPools, poolsCreated, poolCalls, poolCrashed >>

\* find returned end(): always when the identity has no entry, possibly
\* when the lookup raced with an insertion.
PoolMissed(t) ==
    /\ ~poolCrashed
    /\ poolThreads[t].pc = "finding"
    /\ commandPools[poolThreads[t].id] = NoID \/ poolThreads[t].raced
    /\ poolThreads' = [ poolThreads EXCEPT ![t].pc = "missed" ]
    /\ UNCHANGED exceptPoolVars
    /\ UNCHANGED << commandPools, poolsCreated, poolsReturned, poolCalls,
                    poolCrashed >>

\* std::make_shared<CommandPool>(threadID) builds the pool, then emplace
\* starts; whoever else is inside the map at that time races with it.
PoolCreate(t) ==
    /\ ~poolCrashed
    /\ poolThreads[t].pc = "missed"
    /\ LET pool == Cardinality(poolsCreated)
           others == PoolReaders(t) \cup PoolWriters(t)
           entered == [ poolThreads EXCEPT ![t].pc = "emplacing",
                                           ![t].pool = pool ]
       IN  /\ poolsCreated' = poolsCreated \cup
                                  { [ id |-> poolThreads[t].id, pool |-> pool ] }
           /\ poolThreads' = IF others = {} THEN entered
                             ELSE PoolRaced(entered, others \cup { t })
    /\ UNCHANGED exceptPoolVars
    /\ UNCHANGED << commandPools, poolsReturned, poolCalls, poolCrashed >>

\* emplace(threadID, pool).first->second: the pool is stored unless the
\* identity has an entry, and the stored pool is returned.
PoolEmplaced(t) ==
    /\ ~poolCrashed
    /\ poolThreads[t].pc = "emplacing"
    /\ LET id == poolThreads[t].id
           stored == IF commandPools[id] # NoID THEN commandPools[id]
                     ELSE poolThreads[t].pool
       IN  /\ commandPools' = [ commandPools EXCEPT ![id] = stored ]
           /\ PoolReturn(t, stored)
    /\ UNCHANGED exceptPoolVars
    /\ UNCHANGED << poolsCreated, poolCalls, poolCrashed >>

\* An insertion that raced with another access of the tree: the node the
\* other insertion linked in is lost, the own pool is stored and returned.
PoolEmplacedLosing(t) ==
    /\ ~poolCrashed
    /\ poolThreads[t].pc = "emplacing"
    /\ poolThreads[t].raced
    /\ \E lost \in Threads \ { poolThreads[t].id } :
           /\ commandPools[lost] # NoID
           /\ commandPools' = [ commandPools EXCEPT
                                  ![lost] = NoID,
                                  ![poolThreads[t].id] = poolThreads[t].pool ]
    /\ PoolReturn(t, poolThreads[t].pool)
    /\ UNCHANGED exceptPoolVars
    /\ UNCHANGED << poolsCreated, poolCalls, poolCrashed >>

\* A raced access of the tree follows a dangling node and the process dies.
PoolCrash(t) ==
    /\ ~poolCrashed
    /\ poolThreads[t].pc \in { "finding", "emplacing" }
    /\ poolThreads[t].raced
    /\ poolCrashed' = TRUE
    /\ UNCHANGED exceptPoolVars
    /\ UNCHANGED << commandPools, poolThreads, poolsCreated, poolsReturned,
                    poolCalls >>

NextPools ==
    \E t \in Threads :
        \/ \E id \in Threads : GetCommandPool(t, id)
        \/ PoolFound(t)
        \/ PoolMissed(t)
        \/ PoolCreate(t)
        \/ PoolEmplaced(t)
        \/ PoolEmplacedLosing(t)
        \/ PoolCrash(t)

\* Threads that call getCommandPool at any time, each with any identity.
SpecPools == InitGraph /\ [][NextPools]_vars

\* Calls in any order on the command buffers used outside the frame loop.
SpecRecorder == InitGraph /\ [][NextRecorder]_vars

\* ------------------------------------------------------------------------
\* Properties
\* ------------------------------------------------------------------------
Outside == currentRenderPassID = NoID /\ currentRenderSubPassID = NoID

InPass == currentRenderPassID # NoID /\ currentRenderSubPassID = NoID

InPassAndSubpass == currentRenderPassID # NoID /\ currentRenderSubPassID # NoID

\* The ids are the ones the last call found.
IdsUnchanged ==
    /\ currentRenderPassID = lastCall.prePass
    /\ currentRenderSubPassID = lastCall.preSubPass

\* C1: with ring length R the frame index after k completed ticks is
\* k mod R, and the recorder a tick holds is the one of slot k mod R, k the
\* number of ticks completed before it: the index moves by one step per
\* completed tick and by nothing else.
FrameSlotRoundRobin ==
    /\ currentFrame = ticksDone % framesInFlight
    /\ commandBuffer # NoID => commandBuffer = ticksDone % framesInFlight

\* The fourth tick of a ring of three is back on slot 0.
FrameSlotWrapped ==
    /\ framesInFlight = DefaultFramesInFlight
    /\ ticksDone = DefaultFramesInFlight
    /\ pc = "submit"
    /\ commandBuffer = 0

\* C2: while the render callback records into the recorder of a slot, the
\* device holds no unfinished submission of that recorder: the fence of the
\* previous submission of the slot was waited for before the reuse.
FenceWaitBeforeReuse ==
    pc = "render" => \A work \in BagToSet(gpuQueue) : work.slot # commandBuffer

\* C3: a subpass is active only inside an active pass, and a call of
\* endRenderPass that ended a pass found no active subpass.
PassNesting ==
    /\ currentRenderSubPassID # NoID => currentRenderPassID # NoID
    /\ ( /\ lastCall.op = "endRenderPass"
         /\ lastCall.prePass # NoID
         /\ currentRenderPassID = NoID ) => lastCall.preSubPass = NoID

\* endRenderPass was refused inside an active subpass.
EndPassRefusedInSubpass ==
    /\ lastCall.op = "endRenderPass"
    /\ lastCall.error = "SubpassStillActive"
    /\ InPassAndSubpass

\* C4: beginRenderPass called while a pass is active throws the
\* already-active error, whatever the index, and changes no id.
BeginPassWhileActive ==
    ( lastCall.op = "beginRenderPass" /\ lastCall.prePass # NoID )
        => lastCall.error = "AlreadyActive" /\ IdsUnchanged

\* beginRenderPass(0) was called a second time with pass 0 active.
BeginPassTwice ==
    /\ lastCall.op = "beginRenderPass"
    /\ lastCall.index = 0
    /\ lastCall.prePass = 0
    /\ lastCall.error = "AlreadyActive"

\* C5: beginRenderPass(index) called Outside throws the out-of-range error
\* and stays Outside when index >= number of runtime passes; otherwise it
\* succeeds, the pass index is active and started, no subpass is active.
BeginPassFromOutside ==
    ( lastCall.op = "beginRenderPass" /\ lastCall.prePass = NoID )
        => IF lastCall.index >= Len(passes)
           THEN lastCall.error = "OutOfRange" /\ Outside
           ELSE /\ lastCall.error = "None"
                /\ currentRenderPassID = lastCall.index
                /\ passes[lastCall.index + 1].started
                /\ InPass

\* The second pass of a two-pass graph was begun.
BeginSecondPass ==
    /\ lastCall.op = "beginRenderPass"
    /\ lastCall.error = "None"
    /\ Len(passes) = 2
    /\ currentRenderPassID = 1
    /\ passes[2].started
    /\ InPass

\* C6: endRenderPass called with a subpass active throws the
\* subpass-still-active error and changes no id; endRenderSubPass inside
\* an active subpass leaves the pass active with no subpass, and
\* endRenderPass called there succeeds and ends Outside.
EndPassAroundSubpass ==
    /\ ( lastCall.op = "endRenderPass" /\ lastCall.preSubPass # NoID )
           => lastCall.error = "SubpassStillActive" /\ IdsUnchanged
    /\ ( /\ lastCall.op = "endRenderSubPass"
         /\ lastCall.preSubPass # NoID
         /\ InPassList(passes, lastCall.prePass) )
           => /\ lastCall.error = "None"
              /\ currentRenderPassID = lastCall.prePass
              /\ InPass
    /\ ( /\ lastCall.op = "endRenderPass"
         /\ lastCall.preSubPass = NoID
         /\ InPassList(passes, lastCall.prePass) )
           => lastCall.error = "None" /\ Outside

\* endRenderPass succeeded on a pass whose two subpasses were run.
EndPassSucceeded ==
    /\ lastCall.op = "endRenderPass"
    /\ lastCall.error = "None"
    /\ lastCall.prePass = 0
    /\ Outside

\* C7: beginRenderSubPass called with no active pass throws the
\* no-active-pass error, whatever the index, and no subpass becomes active.
BeginSubpassOutside ==
    ( lastCall.op = "beginRenderSubPass" /\ lastCall.prePass = NoID )
        => lastCall.error = "NoActivePass" /\ Outside

\* beginRenderSubPass was called Outside with an index a pass would accept.
BeginSubpassOutsideCalled ==
    /\ lastCall.op = "beginRenderSubPass"
    /\ lastCall.prePass = NoID
    /\ lastCall.index = 0
    /\ Len(passes) > 0

\* C8: beginRenderSubPass called with a subpass active throws the
\* already-active error, whatever the index, and the active subpass stays.
BeginSubpassWhileActive ==
    ( lastCall.op = "beginRenderSubPass" /\ lastCall.preSubPass # NoID )
        => lastCall.error = "AlreadyActive" /\ IdsUnchanged

\* beginRenderSubPass(1) was called with subpass 0 active.
BeginOtherSubpass ==
    /\ lastCall.op = "beginRenderSubPass"
    /\ lastCall.preSubPass = 0
    /\ lastCall.index = 1
    /\ currentRenderSubPassID = 0

\* C9: beginRenderSubPass(k) called InPass on a pass of the list throws the
\* out-of-range error and stays InPass when k >= the subpass count of the
\* pass; otherwise it succeeds and subpass k of the same pass is active.
BeginSubpassInPass ==
    ( /\ lastCall.op = "beginRenderSubPass"
      /\ lastCall.prePass # NoID
      /\ lastCall.preSubPass = NoID
      /\ InPassList(passes, lastCall.prePass) )
        => IF lastCall.index >= passes[lastCall.prePass + 1].subPassesCount
           THEN lastCall.error = "OutOfRange" /\ IdsUnchanged
           ELSE /\ lastCall.error = "None"
                /\ currentRenderPassID = lastCall.prePass
                /\ currentRenderSubPassID = lastCall.index

\* beginRenderSubPass(k) was refused with k the subpass count of the pass.
BeginSubpassAtCount ==
    /\ lastCall.op = "beginRenderSubPass"
    /\ lastCall.error = "OutOfRange"
    /\ InPass
    /\ InPassList(passes, currentRenderPassID)
    /\ lastCall.index = passes[currentRenderPassID + 1].subPassesCount

\* C10: endRenderSubPass called with no active pass throws the
\* no-active-pass error and stays Outside.
EndSubpassOutside ==
    ( lastCall.op = "endRenderSubPass" /\ lastCall.prePass = NoID )
        => lastCall.error = "NoActivePass" /\ Outside

\* endRenderSubPass was called Outside on a pipeline that has passes.
EndSubpassOutsideCalled ==
    /\ lastCall.op = "endRenderSubPass"
    /\ lastCall.prePass = NoID
    /\ Len(passes) > 0

\* C11: endRenderSubPass called with a pass active and no subpass active
\* inside it throws the no-active-pass error.
EndSubpassWithoutSubpass ==
    ( /\ lastCall.op = "endRenderSubPass"
      /\ lastCall.prePass # NoID
      /\ lastCall.preSubPass = NoID
      /\ InPassList(passes, lastCall.prePass) )
        => lastCall.error = "NoActivePass"

\* C12: a render callback that walks one pass of the list (begin the pass,
\* begin and end each of its subpasses in turn, end the pass) gets no error
\* from any of its commands and ends Outside, and the tick that ran it
\* completes with the frame index one step further.
WalkSucceeds ==
    /\ ( tickLog.walkStep >= 1 /\ lastCall.op # "none" )
            => lastCall.error = "None"
    /\ WalkComplete => Outside
    /\ ( WalkComplete /\ pc = "idle" )
            => /\ tickLog.error = "None"
               /\ currentFrame = (tickLog.frame + 1) % framesInFlight

\* The subpass ids of a pass are 0..m-1 in order.
ContiguousSubPasses(subPasses) ==
    \A j \in 1..Len(subPasses) : subPasses[j] = j - 1

\* The pass ids are 0..n-1 in order, and so are the subpass ids of each pass.
ValidStructure(str) ==
    \A i \in 1..Len(str) :
        str[i].passID = i - 1 /\ ContiguousSubPasses(str[i].subPasses)

\* The positions (from 1) whose pass declares an id other than its position.
PassGaps(str) == { i \in 1..Len(str) : str[i].passID # i - 1 }

\* The positions (from 1) of the passes that have a subpass id gap.
SubPassGaps(str) ==
    { i \in 1..Len(str) : ~ContiguousSubPasses(str[i].subPasses) }

Least(S) == CHOOSE x \in S : \A y \in S : x <= y

\* The last setup call was setStructure, and structure is its argument.
StructureDeclared == setupCall.op = "setStructure"

\* C13: the first setStructure call, made with a non-empty attachment set
\* and a structure of contiguous pass and subpass ids, succeeds and builds
\* one pass per entry, in order, each with the declared number of subpasses.
GraphConstruction ==
    ( /\ StructureDeclared
      /\ setupCall.first
      /\ setupCall.attachments > 0
      /\ ValidStructure(structure) )
        => /\ structureError = "None"
           /\ Len(passes) = Len(structure)
           /\ \A i \in 1..Len(structure) :
                  passes[i].subPassesCount = Len(structure[i].subPasses)

\* A graph of two passes, of one and of two subpasses, was built.
TwoPassGraphBuilt ==
    /\ StructureDeclared
    /\ setupCall.first
    /\ setupCall.attachments > 0
    /\ ValidStructure(structure)
    /\ Len(structure) = 2
    /\ Len(passes) = 2
    /\ passes[2].subPassesCount = 2

\* C14 as stated: a structure with a pass at a position other than its id
\* fails with the missing-pass error naming the first such position.
PassGapNamed ==
    ( StructureDeclared /\ PassGaps(structure) # {} )
        => /\ structureError = "MissingPass"
           /\ setupCall.named.pass = Least(PassGaps(structure)) - 1

\* C14: with a non-empty attachment set, a structure whose first pass id gap
\* is at a position that no pass with a subpass id gap precedes fails with
\* the missing-pass error naming that position.
PassGapNamedFirst ==
    ( /\ StructureDeclared
      /\ setupCall.attachments > 0
      /\ PassGaps(structure) # {}
      /\ \A k \in SubPassGaps(structure) : k >= Least(PassGaps(structure)) )
        => /\ structureError = "MissingPass"
           /\ setupCall.named.pass = Least(PassGaps(structure)) - 1

\* Passes declared as 0, 2 were refused naming the missing id 1.
PassGapRefused ==
    /\ StructureDeclared
    /\ setupCall.attachments > 0
    /\ Len(structure) = 2
    /\ structure[2].passID = 2
    /\ SubPassGaps(structure) = {}
    /\ structureError = "MissingPass"
    /\ setupCall.named.pass = 1

\* The first subpass position of a pass whose id differs from the position.
SubGapPosition(subPasses) ==
    Least({ j \in 1..Len(subPasses) : subPasses[j] # j - 1 })

\* The ids a subpass gap at pass position i is reported with.
SubPassGapReported(i) ==
    /\ structureError = "MissingSubPass"
    /\ setupCall.named.pass = i - 1
    /\ setupCall.named.subPass = SubGapPosition(structure[i].subPasses) - 1

\* C15 as stated: a structure with a subpass at a position other than its
\* id fails with the missing-subpass error naming the pass position and the
\* subpass position of the first such subpass.
SubPassGapNamed ==
    ( StructureDeclared /\ SubPassGaps(structure) # {} )
        => SubPassGapReported(Least(SubPassGaps(structure)))

\* C15: with a non-empty attachment set, a structure whose first subpass id
\* gap is in a pass that no pass id gap precedes or coincides with fails
\* with the missing-subpass error naming that pass and subpass position.
SubPassGapNamedFirst ==
    ( /\ StructureDeclared
      /\ setupCall.attachments > 0
      /\ SubPassGaps(structure) # {}
      /\ \A k \in PassGaps(structure) : k > Least(SubPassGaps(structure)) )
        => SubPassGapReported(Least(SubPassGaps(structure)))

\* Pass 0 with subpasses 0, 2 was refused naming pass 0 and subpass 1.
SubPassGapRefused ==
    /\ StructureDeclared
    /\ setupCall.attachments > 0
    /\ structure = << [ passID |-> 0, subPasses |-> <<0, 2>> ] >>
    /\ structureError = "MissingSubPass"
    /\ setupCall.named = [ pass |-> 0, subPass |-> 1 ]

\* C16: setStructure called while the attachment set is empty throws the
\* missing-attachments error and builds no pass, whatever the structure.
StructureNeedsAttachments ==
    ( StructureDeclared /\ setupCall.attachments = 0 )
        => /\ structureError = "MissingAttachments"
           /\ passes = setupCall.before

\* A structure of contiguous ids was refused for want of attachments.
ValidStructureRefused ==
    /\ StructureDeclared
    /\ setupCall.attachments = 0
    /\ ValidStructure(structure)
    /\ structureError = "MissingAttachments"

\* The steps of a tick the order is stated for, in that order.
TickOrder ==
    << "acquire", "recorder", "render", "end", "submit", "present", "advance" >>

IsPrefix(s, t) == Len(s) <= Len(t) /\ SubSeq(t, 1, Len(s)) = s

IsOrdered(step) == step \in { TickOrder[k] : k \in 1..Len(TickOrder) }

Occurrences(step) ==
    Cardinality({ k \in 1..Len(tickLog.trace) : tickLog.trace[k] = step })

\* C17: the steps a tick has executed are an initial part of acquire,
\* recorder, render, end, submit, present, advance: the recorder is ended
\* before it is submitted and is not recording once submitted, presentation
\* follows submission, and the frame index moves at the advance and only
\* there, after which the tick has returned.
TickStepOrder ==
    /\ IsPrefix(SelectSeq(tickLog.trace, IsOrdered), TickOrder)
    /\ pc = "present" => ~running[commandBuffer]
    /\ Occurrences("advance") = 0 => currentFrame = tickLog.frame
    /\ Occurrences("advance") = 1
           => /\ pc = "idle"
              /\ currentFrame = (tickLog.frame + 1) % framesInFlight

\* The second tick of a ring of three ran all its steps.
TickRanAllSteps ==
    /\ SelectSeq(tickLog.trace, IsOrdered) = TickOrder
    /\ framesInFlight = DefaultFramesInFlight
    /\ tickLog.frame = 1
    /\ currentFrame = 2

\* C18: a tick whose presentation fails ends with the fatal presentation
\* error after one submission and one presentation, and the frame index is
\* the one the tick started with.
PresentFailureIsFatal ==
    tickLog.error = "PresentationError"
        => /\ pc = "aborted"
           /\ currentFrame = tickLog.frame
           /\ Occurrences("submit") = 1
           /\ Occurrences("present") = 1
           /\ Occurrences("advance") = 0

\* The second tick of a ring of three failed to present.
SecondPresentFailed ==
    /\ pc = "aborted"
    /\ tickLog.error = "PresentationError"
    /\ framesInFlight = DefaultFramesInFlight
    /\ tickLog.frame = 1

\* C19: when a tick has failed, on a command of the render callback or on
\* presentation, no pass and no subpass is active when it returns.
OutsideAfterFailedTick ==
    tickLog.error \in { "CommandError", "PresentationError" } => Outside

\* C20: the fence a tick has waited for before it submits is the fence of
\* the current frame slot, and every submission was given the fence of the
\* slot whose recorder it submitted.
SlotFenceUsed ==
    /\ pc = "submit" => WaitFenceIndex = currentFrame
    /\ \A work \in BagToSet(gpuQueue) : work.fence = work.slot

\* The frames in flight: the submissions whose fence the device has not
\* signaled yet.
FramesInFlight == BagCardinality(gpuQueue)

\* C21: the number of frames in flight never exceeds the ring length.
FramesInFlightBounded == FramesInFlight <= framesInFlight

\* C22: the image-available semaphore a submission waits on and the
\* render-finished semaphore it signals are the ones at the image index the
\* surface returned for the tick.
SignalsByImageIndex ==
    tickLog.submitted # NoHandles
        => /\ tickLog.submitted.wait = tickLog.image
           /\ tickLog.submitted.signal = tickLog.image

\* A tick of slot 0 of a ring of three submitted for image 1 of a surface
\* of ImageCount images.
SubmittedForOtherImage ==
    /\ pc = "present"
    /\ framesInFlight = DefaultFramesInFlight
    /\ framesInFlight # ImageCount
    /\ tickLog.frame = 0
    /\ tickLog.image = 1
    /\ tickLog.submitted.signal = 1

\* The tick has reached its render callback.
InRender == pc = "render"

\* C24: a tick calls begin() on the recorder of its slot only if the
\* recorder is not recording, the recorder is recording while the render
\* callback runs, and the callback is run once per tick.
RecorderBegunOnce ==
    /\ tickLog.recorder \in { "none", "begun", "continued" }
    /\ InRender => running[commandBuffer]
    /\ Occurrences("render") <= 1
    /\ Occurrences("advance") = 1 => Occurrences("render") = 1

\* A tick found the recorder of its slot recording and did not begin it.
RecorderContinued ==
    /\ InRender
    /\ tickLog.recorder = "continued"
    /\ running[commandBuffer]

\* Two pass lists hold as many passes, each of as many subpasses.
SameShape(ps, qs) ==
    /\ Len(ps) = Len(qs)
    /\ \A i \in 1..Len(ps) : ps[i].subPassesCount = qs[i].subPassesCount

\* The last step of the pipeline was a resize.
Resized == setupCall.op = "onWindowResized"

\* C23: a resize of a pipeline that has attachments and a stored structure
\* of contiguous ids raises no construction error and leaves as many
\* passes, each of as many subpasses, as there were before it.
ResizeRebuilds ==
    ( Resized /\ setupCall.attachments > 0 /\ ValidStructure(structure) )
        => /\ structureError = "None"
           /\ SameShape(passes, setupCall.before)

\* The last command returned after its call on the pass object.
Issued(op) == lastCall.op = op /\ lastCall.error = "None"

\* C30: end() is issued to a pass object that was started and not ended
\* since, and endSubPass(k) to a pass object whose subpass k was started
\* and not ended since.
PassObjectPairing ==
    /\ Issued("endRenderPass") => lastCall.target.started
    /\ Issued("endRenderSubPass")
           => /\ lastCall.preSubPass # NoID
              /\ lastCall.target.subPass = lastCall.preSubPass

\* The state the last call on a recorder left it in.
RecorderNow == recorders[recorderCall.recorder]

RecorderRejected ==
    recorderCall.error # "None" /\ RecorderNow = recorderCall.pre

\* C25: begin() is rejected unless the recorder is idle and starts the
\* recording otherwise, end() is rejected on an idle recorder, submit
\* succeeds only on a recorder that end() has ended, submitIdle() leaves the
\* recorder idle, and a state is left only for the next one of the cycle
\* Idle, Recording, (ended,) Submitted, Idle.
RecorderLifecycle ==
    /\ recorderCall.op = "begin"
           => IF recorderCall.pre = "Idle"
              THEN recorderCall.error = "None" /\ RecorderNow = "Recording"
              ELSE RecorderRejected
    /\ ( recorderCall.op = "end" /\ recorderCall.pre = "Idle" )
           => RecorderRejected
    /\ ( recorderCall.op = "submit" /\ recorderCall.error = "None" )
           => recorderCall.pre = "Ended" /\ RecorderNow = "Submitted"
    /\ ( recorderCall.op = "submitIdle" /\ recorderCall.error = "None" )
           => RecorderNow = "Idle"
    /\ recorderCall.op # "none"
           => << recorderCall.pre, RecorderNow >> \in
                 { << st, st >> : st \in { "Idle", "Recording", "Ended", "Submitted" } }
                 \cup { << "Idle", "Recording" >>, << "Recording", "Ended" >>,
                        << "Ended", "Submitted" >>, << "Recording", "Idle" >> }

\* begin() was rejected on a recording recorder.
BeginRejectedWhileRecording ==
    /\ recorderCall.op = "begin"
    /\ recorderCall.pre = "Recording"
    /\ recorderCall.error = "NotIdle"

\* C26: one command pool at most is ever created for an identity, every
\* call made with an identity returns the pool created for that identity,
\* so that calls with one identity get one pool and calls with two get two,
\* and no call ends the process.
OnePoolPerIdentity ==
    /\ ~poolCrashed
    /\ \A c, d \in poolsCreated : c.id = d.id => c.pool = d.pool
    /\ \A r \in poolsReturned : r \in poolsCreated

\* The number of times x is in the list.
Registrations(list, x) == Cardinality({ i \in 1..Len(list) : list[i] = x })

\* The positions of list, in increasing order, hold the elements of part.
RECURSIVE InListOrder(_, _)
InListOrder(part, list) ==
    IF part = << >> THEN TRUE
    ELSE IF list = << >> THEN FALSE
    ELSE IF Head(part) = Head(list) THEN InListOrder(Tail(part), Tail(list))
    ELSE InListOrder(part, Tail(list))

\* C27: notify calls every non-null observer once per registration and in
\* the order of the list, and calls no observer that was removed or
\* cleared and not added again; addObserver puts the observer first if
\* pushTop and last otherwise; removeObserver leaves no registration of the
\* observer and clearObservers leaves none at all.
NotifyInListOrder ==
    /\ subjectCall.op = "notify"
           => /\ \A o \in 1..ObserverCount :
                     Registrations(delivered, o) = Registrations(observers, o)
              /\ Registrations(delivered, NullObserver) = 0
              /\ InListOrder(delivered, observers)
              /\ \A i \in 1..Len(delivered) : delivered[i] \notin unregistered
    /\ subjectCall.op = "addObserver"
           => observers = IF subjectCall.pushTop
                          THEN << subjectCall.observer >> \o subjectCall.before
                          ELSE subjectCall.before \o << subjectCall.observer >>
    /\ subjectCall.op = "removeObserver"
           => /\ Registrations(observers, subjectCall.observer) = 0
              /\ \A o \in ObserverHandles \ { subjectCall.observer } :
                     Registrations(observers, o) = Registrations(subjectCall.before, o)
              /\ InListOrder(observers, subjectCall.before)
    /\ subjectCall.op = "clearObservers" => observers = << >>

\* notify on a list that holds an observer twice and a null entry, after
\* the other observer was removed.
NotifiedTwiceAroundNull ==
    /\ subjectCall.op = "notify"
    /\ observers = << 2, NullObserver, 2 >>
    /\ delivered = << 2, 2 >>
    /\ unregistered = { 1 }

ResourceCallOn(op) == resourceCall.op = op

\* The resource and the deletion entry of the path of the last call.
ResourceNow == resources[resourceCall.path]

ScheduledNow == resourcesToDelete[resourceCall.path]

\* C28: a load of a path that has a resource keeps that resource and adds
\* one to its reference count, and a resource that was loaded n times and
\* never released has the reference count n.
LoadSharesResource ==
    /\ ( ResourceCallOn("load") /\ resourceCall.before.loaded )
           => /\ ResourceNow.loaded
              /\ ResourceNow.refs = resourceCall.before.refs + 1
    /\ \A path \in Paths :
           loadsOnly[path] # NoID
               => resources[path].loaded /\ resources[path].refs = loadsOnly[path]

\* A resource was loaded a second time with no release before.
LoadedTwice ==
    /\ ResourceCallOn("load")
    /\ resourceCall.before = [ loaded |-> TRUE, refs |-> 1 ]
    /\ loadsOnly[resourceCall.path] = 2
    /\ ResourceNow.refs = 2

\* C29: a release of a path that has a resource takes one from its
\* reference count; at a count <= 0 a path that has no deletion entry gets
\* one of 3 ticks, and a path that has one keeps it as it was; at a
\* count > 0 the entries are as before; a release of a path without
\* resource changes nothing.
ReleaseSchedulesOnce ==
    ResourceCallOn("release")
        => IF ~resourceCall.before.loaded
           THEN /\ ResourceNow = resourceCall.before
                /\ ScheduledNow = resourceCall.scheduled
           ELSE /\ ResourceNow.loaded
                /\ ResourceNow.refs = resourceCall.before.refs - 1
                /\ ScheduledNow =
                       IF ResourceNow.refs <= 0 /\ resourceCall.scheduled = NoID
                       THEN 3 ELSE resourceCall.scheduled

\* A release of a resource whose deletion entry has lost a tick.
ReleasedWhileScheduled ==
    /\ ResourceCallOn("release")
    /\ resourceCall.before.loaded
    /\ resourceCall.scheduled = 2
    /\ ResourceNow.refs = -1
    /\ ScheduledNow = 2

\* C31: no begin or end call reads _passes at an index outside of
\* 0 .. size - 1, whatever the calls before it were.
PassListIndexInRange ==
    /\ lastCall.error # "OutOfBounds"
    /\ pc # "crashed"

\* A begin or end call threw.
CallFailed == lastCall.op # "none" /\ Thrown(lastCall.error)

\* C32: a begin or end call that throws leaves _currentRenderPassID and
\* _currentRenderSubPassID as it found them.
FailedCallKeepsIds ==
    CallFailed => /\ currentRenderPassID = lastCall.prePass
                  /\ currentRenderSubPassID = lastCall.preSubPass

\* beginRenderSubPass threw for an index the active pass does not have.
BeginSubpassOutOfRange ==
    /\ lastCall.op = "beginRenderSubPass"
    /\ lastCall.error = "OutOfRange"
    /\ lastCall.prePass = 0
    /\ currentRenderPassID = 0
    /\ currentRenderSubPassID = NoID

SetStructureCalled == setupCall.op = "setStructure"

\* C33: a setStructure call that throws has appended nothing to _passes.
FailedSetStructureAddsNothing ==
    ( SetStructureCalled /\ structureError # "None" )
        => passes = setupCall.before

\* Runtime pass i has the subpasses of entry i of the structure, and there
\* are no other passes.
BuiltFrom(ps, str) ==
    /\ Len(ps) = Len(str)
    /\ \A i \in 1..Len(str) : ps[i].subPassesCount = Len(str[i].subPasses)

\* C34: after a setStructure call that returns, _passes holds one pass for
\* each entry of the structure it was given, in the order of the entries,
\* and nothing else.
SetStructureReplacesPasses ==
    ( SetStructureCalled /\ structureError = "None" )
        => BuiltFrom(passes, structure)

\* The tick has moved the frame index, or has thrown at presentToQueue.
TickEnded ==
    \/ pc = "idle" /\ Occurrences("advance") = 1
    \/ pc = "aborted" /\ tickLog.error = "PresentationError"

ScheduledMeansUnreferenced ==
    \A path \in Paths :
        resourcesToDelete[path] # NoID
            => resources[path].loaded /\ resources[path].refs <= 0

\* C37: whatever parents setParent has stored, a getTransform call and the
\* parent loop of the gizmo come to an end.
ParentWalkTerminates == ( walk.op # "none" ) ~> ( walk.op = "none" )

====
